---- MODULE Spec2Model ----
(***************************************************************************)
(* A model of the spoke-length calculator (src/src/contexts/               *)
(* ToastContext.tsx, which holds the SpokeLengthCalculator component, and  *)
(* src/src/components/Toast.tsx).                                          *)
(*                                                                         *)
(* Part 1 models JavaScript's Number type: IEEE-754 binary64 with          *)
(* round-to-nearest, ties-to-even.  A Number is a record [k, neg, m, e].   *)
(* With k = "fin" it stands for (-1)^neg * m * 2^e, where m is a natural   *)
(* number of exactly 53 bits (or zero) held as a little-endian sequence of *)
(* 14-bit limbs, since TLC's integers are 32 bits wide.  NaN has k = "nan" *)
(* and the infinities have k = "inf"; null, where a Number may be null,    *)
(* has k = "null".  The exponent is not bounded: no value of the model     *)
(* comes near the overflow or the subnormal range.  Math.cos, which the    *)
(* language leaves to the implementation, is tabulated at the angles the   *)
(* form's choices of spokes and crossings produce.                         *)
(***************************************************************************)
EXTENDS Integers, Sequences, FiniteSets, TLC

Base == 2^14

RECURSIVE Trim(_)
Trim(a) ==
    IF a = <<>> THEN <<>>
    ELSE IF a[Len(a)] = 0 THEN Trim(SubSeq(a, 1, Len(a) - 1))
    ELSE a

RECURSIVE BigFromInt(_)
BigFromInt(n) ==
    IF n = 0 THEN <<>> ELSE <<n % Base>> \o BigFromInt(n \div Base)

RECURSIVE BigCmpFrom(_, _, _)
BigCmpFrom(a, b, i) ==
    IF i = 0 THEN 0
    ELSE IF a[i] < b[i] THEN -1
    ELSE IF a[i] > b[i] THEN 1
    ELSE BigCmpFrom(a, b, i - 1)

\* -1, 0 or 1 as a < b, a = b or a > b (both without leading zero limbs)
BigCmp(a, b) ==
    IF Len(a) < Len(b) THEN -1
    ELSE IF Len(a) > Len(b) THEN 1
    ELSE BigCmpFrom(a, b, Len(a))

RECURSIVE BigAddC(_, _, _)
BigAddC(a, b, c) ==
    IF a = <<>> /\ b = <<>> THEN (IF c = 0 THEN <<>> ELSE <<c>>)
    ELSE LET x == (IF a = <<>> THEN 0 ELSE a[1])
                  + (IF b = <<>> THEN 0 ELSE b[1]) + c
         IN  <<x % Base>> \o BigAddC(IF a = <<>> THEN <<>> ELSE Tail(a),
                                     IF b = <<>> THEN <<>> ELSE Tail(b),
                                     x \div Base)

BigAdd(a, b) == BigAddC(a, b, 0)

RECURSIVE BigSubB(_, _, _)
BigSubB(a, b, c) ==
    IF a = <<>> THEN <<>>
    ELSE LET x == a[1] - (IF b = <<>> THEN 0 ELSE b[1]) - c
         IN  <<(x + Base) % Base>>
             \o BigSubB(Tail(a), IF b = <<>> THEN <<>> ELSE Tail(b),
                        IF x < 0 THEN 1 ELSE 0)

\* a - b for a >= b
BigSub(a, b) == Trim(BigSubB(a, b, 0))

RECURSIVE BigMulSmallC(_, _, _)
BigMulSmallC(a, d, c) ==
    IF a = <<>> THEN (IF c = 0 THEN <<>> ELSE BigFromInt(c))
    ELSE LET x == a[1] * d + c
         IN  <<x % Base>> \o BigMulSmallC(Tail(a), d, x \div Base)

\* a * d for 0 <= d < 2^16
BigMulSmall(a, d) == IF d = 0 THEN <<>> ELSE BigMulSmallC(a, d, 0)

RECURSIVE BigMul(_, _)
BigMul(a, b) ==
    IF a = <<>> \/ b = <<>> THEN <<>>
    ELSE LET rest == BigMul(a, Tail(b))
         IN  BigAdd(BigMulSmall(a, b[1]),
                    IF rest = <<>> THEN <<>> ELSE <<0>> \o rest)

RECURSIVE BigDivSmallR(_, _)
BigDivSmallR(a, d) ==
    IF a = <<>> THEN [q |-> <<>>, r |-> 0]
    ELSE LET hi == BigDivSmallR(Tail(a), d)
             x  == hi.r * Base + a[1]
         IN  [q |-> <<x \div d>> \o hi.q, r |-> x % d]

\* quotient and remainder of a by d, for 0 < d < 2^17
BigDivSmall(a, d) ==
    LET qr == BigDivSmallR(a, d) IN [q |-> Trim(qr.q), r |-> qr.r]

Zeros(n) == [i \in 1..n |-> 0]

\* a * 2^k
BigShl(a, k) ==
    IF a = <<>> THEN <<>>
    ELSE Zeros(k \div 14) \o BigMulSmall(a, 2^(k % 14))

\* floor(a / 2^k)
BigShr(a, k) ==
    IF Len(a) <= k \div 14 THEN <<>>
    ELSE BigDivSmall(SubSeq(a, (k \div 14) + 1, Len(a)), 2^(k % 14)).q

RECURSIVE IntBits(_)
IntBits(n) == IF n = 0 THEN 0 ELSE 1 + IntBits(n \div 2)

\* the number of bits of a: 0 for zero, else floor(log2 a) + 1
BigBits(a) ==
    IF a = <<>> THEN 0 ELSE 14 * (Len(a) - 1) + IntBits(a[Len(a)])

\* a mod 2^k /= 0
BigLowNonzero(a, k) ==
    \/ \E i \in 1..Len(a) : i <= k \div 14 /\ a[i] # 0
    \/ /\ Len(a) > k \div 14
       /\ a[(k \div 14) + 1] % (2^(k % 14)) # 0

\* bit i of a (bit 0 is the lowest)
BigBit(a, i) ==
    IF Len(a) <= i \div 14 THEN 0
    ELSE (a[(i \div 14) + 1] \div (2^(i % 14))) % 2

BigOdd(a) == a # <<>> /\ a[1] % 2 = 1

RECURSIVE BigToInt(_)
BigToInt(a) == IF a = <<>> THEN 0 ELSE a[1] + Base * BigToInt(Tail(a))

RECURSIVE IntSqrtStep(_, _, _)
IntSqrtStep(v, bit, r) ==
    IF bit = 0 THEN r
    ELSE IF (r + bit) * (r + bit) <= v THEN IntSqrtStep(v, bit \div 2, r + bit)
    ELSE IntSqrtStep(v, bit \div 2, r)

\* floor(sqrt(v)) for 0 <= v < 2^28
IntSqrt(v) == IntSqrtStep(v, 2^13, 0)

\* the largest digit d <= est with (D + d) * d <= rem2
RECURSIVE FitDigit(_, _, _)
FitDigit(D, rem2, d) ==
    IF BigCmp(BigMulSmall(BigAdd(D, BigFromInt(d)), d), rem2) <= 0 THEN d
    ELSE FitDigit(D, rem2, d - 1)

\* The schoolbook square root in base 2^14, one digit of the root per pair
\* of limbs of a, from pair j down: root and rem are those of the limbs
\* above pair j, d1 is the root's first digit.  The next digit d is the
\* largest with (2*root*Base + d) * d <= rem * Base^2 + pair j; it is at most
\* (rem * Base^2 + pair j) / (2 * d1 * Base^k), k the number of digits root
\* has, which is where the search starts.
RECURSIVE BigSqrtStep(_, _, _, _, _)
BigSqrtStep(a, j, d1, root, rem) ==
    IF j = 0 THEN [root |-> root, rem |-> rem]
    ELSE LET rem2 == Trim(<<a[2 * j - 1], a[2 * j]>> \o rem)
             D    == <<0>> \o BigMulSmall(root, 2)
             top  == IF Len(rem2) <= Len(root) THEN 0
                     ELSE BigToInt(SubSeq(rem2, Len(root) + 1, Len(rem2)))
             est  == IF top \div (2 * d1) >= Base THEN Base - 1
                     ELSE top \div (2 * d1)
             d    == FitDigit(D, rem2, est)
         IN  BigSqrtStep(a, j - 1, d1, <<d>> \o root,
                         BigSub(rem2, BigMulSmall(BigAdd(D, BigFromInt(d)), d)))

\* root = floor(sqrt(a)) and rem = a - root^2, for a of an even number of
\* limbs whose top two limbs hold at least 2^26
BigSqrt(a) ==
    LET n   == Len(a) \div 2
        v   == a[2 * n] * Base + a[2 * n - 1]
        d1  == IntSqrt(v)
    IN  BigSqrtStep(a, n - 1, d1, <<d1>>, BigFromInt(v - d1 * d1))

RECURSIVE IntTZ(_)
IntTZ(n) == IF n % 2 = 1 THEN 0 ELSE 1 + IntTZ(n \div 2)

\* the number of trailing zero bits of a /= 0
RECURSIVE BigTZ(_)
BigTZ(a) == IF a[1] = 0 THEN 14 + BigTZ(Tail(a)) ELSE IntTZ(a[1])

(***************************************************************************)
(* Numbers.                                                                *)
(***************************************************************************)
Fin(neg, m, e) == [k |-> "fin", neg |-> neg, m |-> m, e |-> e]
Zero   == [k |-> "fin", neg |-> FALSE, m |-> <<>>, e |-> 0]
NaN    == [k |-> "nan", neg |-> FALSE, m |-> <<>>, e |-> 0]
Inf(neg) == [k |-> "inf", neg |-> neg, m |-> <<>>, e |-> 0]

IsNaN(x)    == x.k = "nan"
IsFinite(x) == x.k = "fin"
IsZero(x)   == x.k = "fin" /\ x.m = <<>>

\* The Number nearest to (-1)^neg * (M + s) * 2^e, where 0 <= s < 1 and
\* sticky tells whether s > 0; ties go to the even mantissa.  A sticky M
\* has more than 54 bits.
Round(neg, M, e, sticky) ==
    LET b == BigBits(M) IN
    IF M = <<>> THEN Zero
    ELSE IF b <= 53 THEN Fin(neg, BigShl(M, 53 - b), e - (53 - b))
    ELSE LET sh   == b - 53
             q    == BigShr(M, sh)
             half == BigBit(M, sh - 1) = 1
             rest == sticky \/ BigLowNonzero(M, sh - 1)
             q2   == IF half /\ (rest \/ BigOdd(q)) THEN BigAdd(q, <<1>>) ELSE q
         IN  IF BigBits(q2) = 54 THEN Fin(neg, BigShr(q2, 1), e + sh + 1)
             ELSE Fin(neg, q2, e + sh)

\* the Number of an integer n, |n| < 2^31
FromInt(n) == Round(n < 0, BigFromInt(IF n < 0 THEN -n ELSE n), 0, FALSE)

FNeg(x) == IF IsNaN(x) \/ IsZero(x) THEN x ELSE [x EXCEPT !.neg = ~x.neg]

\* a * b
FMul(a, b) ==
    IF IsNaN(a) \/ IsNaN(b) THEN NaN
    ELSE IF a.k = "inf" \/ b.k = "inf"
         THEN (IF IsZero(a) \/ IsZero(b) THEN NaN ELSE Inf(a.neg # b.neg))
    ELSE Round(a.neg # b.neg, BigMul(a.m, b.m), a.e + b.e, FALSE)

\* a + b: the exact sum of the aligned mantissas, rounded once
FAdd(a, b) ==
    IF IsNaN(a) \/ IsNaN(b) THEN NaN
    ELSE IF a.k = "inf" THEN (IF b.k = "inf" /\ a.neg # b.neg THEN NaN ELSE a)
    ELSE IF b.k = "inf" THEN b
    ELSE IF IsZero(a) THEN b
    ELSE IF IsZero(b) THEN a
    ELSE LET e  == IF a.e < b.e THEN a.e ELSE b.e
             ma == BigShl(a.m, a.e - e)
             mb == BigShl(b.m, b.e - e)
             c  == BigCmp(ma, mb)
         IN  IF a.neg = b.neg THEN Round(a.neg, BigAdd(ma, mb), e, FALSE)
             ELSE IF c = 0 THEN Zero
             ELSE IF c > 0 THEN Round(a.neg, BigSub(ma, mb), e, FALSE)
             ELSE Round(b.neg, BigSub(mb, ma), e, FALSE)

\* a - b
FSub(a, b) == FAdd(a, FNeg(b))

\* a / b for a divisor b = d * 2^j with d < 2^17 (every divisor of the model
\* is a small integer or half of one): 60 more quotient bits than the mantissa
\* has, and the remainder as the sticky bit
FDiv(a, b) ==
    IF IsNaN(a) \/ IsNaN(b) THEN NaN
    ELSE IF a.k = "inf" THEN (IF b.k = "inf" THEN NaN ELSE Inf(a.neg # b.neg))
    ELSE IF b.k = "inf" THEN Zero
    ELSE IF IsZero(b) THEN (IF IsZero(a) THEN NaN ELSE Inf(a.neg # b.neg))
    ELSE IF IsZero(a) THEN Zero
    ELSE LET tz == BigTZ(b.m)
             qr == BigDivSmall(BigShl(a.m, 60), BigToInt(BigShr(b.m, tz)))
         IN  Round(a.neg # b.neg, qr.q, a.e - 60 - b.e - tz, qr.r # 0)

\* Math.sqrt(a)
MathSqrt(a) ==
    IF IsNaN(a) THEN NaN
    ELSE IF IsZero(a) THEN a
    ELSE IF a.neg THEN NaN
    ELSE IF a.k = "inf" THEN a
    ELSE LET s == IF (a.e - 58) % 2 = 0 THEN 58 ELSE 59  \* 111 or 112 bits
             r == BigSqrt(BigShl(a.m, s))
         IN  Round(FALSE, r.root, (a.e - s) \div 2, r.rem # <<>>)

\* Math.floor(a)
MathFloor(a) ==
    IF ~IsFinite(a) \/ IsZero(a) \/ a.e >= 0 THEN a
    ELSE LET q    == BigShr(a.m, -a.e)
             frac == BigLowNonzero(a.m, -a.e)
         IN  IF a.neg /\ frac THEN Round(TRUE, BigAdd(q, <<1>>), 0, FALSE)
             ELSE Round(a.neg, q, 0, FALSE)

\* a < b and a <= b (false when either is NaN)
FLt(a, b) ==
    LET d == FSub(a, b) IN
    ~IsNaN(d) /\ ~IsZero(d) /\ d.neg

FLe(a, b) ==
    LET d == FSub(a, b) IN
    ~IsNaN(d) /\ (IsZero(d) \/ d.neg)

\* whether a is an integer
IsInteger(a) == IsFinite(a) /\ MathFloor(a) = a

Two == FromInt(2)
Ten == FromInt(10)

\* Math.PI
MathPI == Fin(FALSE, <<11544, 4368, 8117, 1608>>, -51)

\* Math.cos at the angles 2*pi*crossings/(numberOfSpokes/2) of 1 to 4
\* crossings on 24, 28, 32 and 36 spokes, as <<angle, cosine>>.  The cosines
\* are the correctly rounded ones; a JavaScript engine's Math.cos is
\* "implementation-approximated" and may differ from them in the last bit.
CosTable ==
    { <<Fin(FALSE, <<1159, 11165, 12676, 1429>>, -54),
        Fin(FALSE, <<11548, 2376, 8036, 1924>>, -53)>>,    \* 1 of 36: 0.939692620785908
      <<Fin(FALSE, <<11544, 4368, 8117, 1608>>, -54),
        Fin(FALSE, <<3398, 15562, 1724, 1892>>, -53)>>,    \* 1 of 32: 0.923879532511287
      <<Fin(FALSE, <<8512, 12014, 4595, 1838>>, -54),
        Fin(FALSE, <<7281, 10029, 3018, 1845>>, -53)>>,    \* 1 of 28: 0.900968867902419
      <<Fin(FALSE, <<13157, 8373, 5411, 1072>>, -53),
        Fin(FALSE, <<3243, 8545, 10158, 1773>>, -53)>>,    \* 1 of 24: 0.866025403784439
      <<Fin(FALSE, <<1159, 11165, 12676, 1429>>, -53),
        Fin(FALSE, <<4153, 2877, 14074, 1568>>, -53)>>,    \* 2 of 36: 0.766044443118978
      <<Fin(FALSE, <<11544, 4368, 8117, 1608>>, -53),
        Fin(FALSE, <<15309, 6652, 2534, 1448>>, -53)>>,    \* 2 of 32: 0.707106781186548
      <<Fin(FALSE, <<8512, 12014, 4595, 1838>>, -53),
        Fin(FALSE, <<11730, 2607, 14862, 1276>>, -53)>>,   \* 2 of 28: 0.623489801858734
      <<Fin(FALSE, <<13157, 8373, 5411, 1072>>, -52),
        Fin(FALSE, <<1, 0, 0, 1024>>, -53)>>,              \* 3 of 36, 2 of 24: 0.5000000000000001
      <<Fin(FALSE, <<8658, 15564, 6087, 1206>>, -52),
        Fin(FALSE, <<10596, 6842, 7722, 1567>>, -54)>>,    \* 3 of 32: 0.38268343236509
      <<Fin(FALSE, <<14576, 13106, 11638, 1378>>, -52),
        Fin(FALSE, <<1412, 3081, 14606, 1822>>, -55)>>,    \* 3 of 28: 0.222520933956314
      <<Fin(FALSE, <<1159, 11165, 12676, 1429>>, -52),
        Fin(FALSE, <<13196, 14381, 8615, 1422>>, -55)>>,   \* 4 of 36: 0.17364817766693
      <<Fin(FALSE, <<11544, 4368, 8117, 1608>>, -52),
        Fin(FALSE, <<7175, 3153, 8803, 1129>>, -106)>>,    \* 4 of 32, 3 of 24: 6.123233995736766e-17
      <<Fin(FALSE, <<8512, 12014, 4595, 1838>>, -52),
        Fin(TRUE, <<1408, 3081, 14606, 1822>>, -55)>>,     \* 4 of 28: -0.222520933956314
      <<Fin(FALSE, <<13157, 8373, 5411, 1072>>, -51),
        Fin(TRUE, <<16380, 16383, 16383, 2047>>, -54)>> }  \* 4 of 24: -0.4999999999999998

\* Math.cos(x): 1 at zero, NaN at NaN and the infinities, even in x
MathCos(x) ==
    IF ~IsFinite(x) THEN NaN
    ELSE IF IsZero(x) THEN FromInt(1)
    ELSE LET ax == [x EXCEPT !.neg = FALSE]
         IN  (CHOOSE p \in CosTable : p[1] = ax)[2]

(***************************************************************************)
(* Part 2: strings, as sequences of one-character strings, and their       *)
(* conversions.                                                            *)
(***************************************************************************)
Digits == <<"0", "1", "2", "3", "4", "5", "6", "7", "8", "9">>

IsDigit(c) == \E d \in 1..10 : Digits[d] = c

DigitVal(c) == (CHOOSE d \in 1..10 : Digits[d] = c) - 1

\* the longest prefix of s made of digits
RECURSIVE TakeDigits(_)
TakeDigits(s) ==
    IF s # <<>> /\ IsDigit(s[1]) THEN <<s[1]>> \o TakeDigits(Tail(s)) ELSE <<>>

\* the value of a sequence of digits, most significant first
RECURSIVE DigitsValue(_)
DigitsValue(ds) ==
    IF ds = <<>> THEN 0
    ELSE 10 * DigitsValue(SubSeq(ds, 1, Len(ds) - 1)) + DigitVal(ds[Len(ds)])

\* s without its leading white space
RECURSIVE TrimStart(_)
TrimStart(s) == IF s # <<>> /\ s[1] = " " THEN TrimStart(Tail(s)) ELSE s

\* String.prototype.trim
RECURSIVE TrimEnd(_)
TrimEnd(s) ==
    IF s # <<>> /\ s[Len(s)] = " " THEN TrimEnd(SubSeq(s, 1, Len(s) - 1)) ELSE s

StrTrim(s) == TrimEnd(TrimStart(s))

\* s.endsWith('.')
EndsWithDot(s) == s # <<>> /\ s[Len(s)] = "."

\* n.toString() for an integer n >= 0
RECURSIVE IntToString(_)
IntToString(n) ==
    IF n < 10 THEN <<Digits[n + 1]>>
    ELSE IntToString(n \div 10) \o <<Digits[(n % 10) + 1]>>

\* parseFloat(s): the longest prefix of the trimmed string that reads
\* [+-] digits [. digits], NaN when it holds no digit.  (No string of the
\* model holds an exponent part or "Infinity".)  The decimal is rounded to
\* the nearest Number: numerator and power of ten are exact and the
\* division is correctly rounded.
parseFloat(s) ==
    LET t  == TrimStart(s)
        sg == t # <<>> /\ t[1] \in {"-", "+"}
        u  == IF sg THEN Tail(t) ELSE t
        ip == TakeDigits(u)
        r  == SubSeq(u, Len(ip) + 1, Len(u))
        fp == IF r # <<>> /\ r[1] = "." THEN TakeDigits(Tail(r)) ELSE <<>>
        v  == FDiv(FromInt(DigitsValue(ip \o fp)), FromInt(10^Len(fp)))
    IN  IF ip = <<>> /\ fp = <<>> THEN NaN
        ELSE IF sg /\ t[1] = "-" THEN FNeg(v) ELSE v

\* parseInt(s): [+-] digits at the start of the trimmed string, NaN when
\* there is none
parseInt(s) ==
    LET t  == TrimStart(s)
        sg == t # <<>> /\ t[1] \in {"-", "+"}
        u  == IF sg THEN Tail(t) ELSE t
        ip == TakeDigits(u)
    IN  IF ip = <<>> THEN NaN
        ELSE IF sg /\ t[1] = "-" THEN FromInt(-DigitsValue(ip))
        ELSE FromInt(DigitsValue(ip))

(***************************************************************************)
(* Part 3: the calculation.                                                *)
(***************************************************************************)

\* theta of calculateLength
Theta(crossings, spokesNum) ==
    LET spokesPerSide == FDiv(spokesNum, Two)
    IN  FDiv(FMul(FMul(Two, MathPI), crossings), spokesPerSide)

\* C of calculateLength: the third side by the cosine theorem
PlanarChord(pitchCircle, crossings, erdNum, spokesNum) ==
    LET A     == FDiv(pitchCircle, Two)
        B     == FDiv(erdNum, Two)
        theta == Theta(crossings, spokesNum)
    IN  MathSqrt(FSub(FAdd(FMul(A, A), FMul(B, B)),
                      FMul(FMul(FMul(Two, A), B), MathCos(theta))))

\* a variant of RawLength that forgets the spoke hole
RawLengthNoHole(pitchCircle, flangeDistance, crossings, erdNum, spokesNum, shdNum) ==
    LET C == PlanarChord(pitchCircle, crossings, erdNum, spokesNum)
        w == flangeDistance
    IN  MathSqrt(FAdd(FMul(C, C), FMul(w, w)))

\* length of calculateLength, before it is rounded
RawLength(pitchCircle, flangeDistance, crossings, erdNum, spokesNum, shdNum) ==
    LET C == PlanarChord(pitchCircle, crossings, erdNum, spokesNum)
        w == flangeDistance
        d == shdNum
    IN  FSub(MathSqrt(FAdd(FMul(C, C), FMul(w, w))), FDiv(d, Two))

\* a variant of RoundDown that rounds to the nearest tenth
RoundNearest(length) ==
    FDiv(MathFloor(FAdd(FMul(length, Ten), FDiv(FromInt(1), Two))), Ten)

\* Math.floor(length * 10) / 10
RoundDown(length) == FDiv(MathFloor(FMul(length, Ten)), Ten)

calculateLength(pitchCircle, flangeDistance, crossings, erdNum, spokesNum, shdNum) ==
    RoundDown(RawLength(pitchCircle, flangeDistance, crossings,
                        erdNum, spokesNum, shdNum))

(***************************************************************************)
(* Part 4: the state of SpokeLengthCalculator and its handlers.            *)
(*                                                                         *)
(* inputs, results, savedCalculations, calculationName, showDeleteConfirm  *)
(* and calculationToDelete are the component's state; localStorage is the  *)
(* browser's entry 'spokeCalculations'; now is the clock behind Date.now(); *)
(* pendingReads holds the files handed to a FileReader whose onload has    *)
(* not run yet; toastCall is the showToast call of the handler that ran    *)
(* last.  resultsFor is a history variable: how the displayed results came *)
(* about and the inputs they belong to.                                    *)
(*                                                                         *)
(* jsonData, showJsonOutput and selectedPreset are state of the component  *)
(* too; downloaded is the file downloadJSON wrote last.  sharedWith tells  *)
(* which saved entry's inputs object and results object the working state  *)
(* refers to (loadCalculation passes the stored objects on without copying *)
(* them): << >> for none, <<i>> for the i-th entry.  savedWith and         *)
(* exportedFrom are history variables: for every saved entry, the working  *)
(* inputs and results at the moment it was saved, and for the document in  *)
(* jsonData, the working inputs and results it was made from.              *)
(*                                                                         *)
(* toasts is the list of the ToastProvider; each toast carries the timer   *)
(* its Toast component set when it was mounted.  presetModules are the     *)
(* bundled preset documents, presetOptions the catalogue made of them,     *)
(* language the language of i18n, and effectPending tells that the effect  *)
(* which loads the presets is due to run (after the first render, and      *)
(* after every render in which t has changed).  presetErrors (how often    *)
(* the loader has raised its notification) and switches (how often the     *)
(* language was changed) are history variables.                            *)
(***************************************************************************)
VARIABLES inputs, results, savedCalculations, calculationName,
          showDeleteConfirm, calculationToDelete, localStorage, now,
          pendingReads, toastCall, resultsFor,
          jsonData, showJsonOutput, selectedPreset, downloaded, exportedFrom,
          sharedWith, savedWith,
          toasts, presetModules, presetOptions, language, effectPending,
          presetErrors, switches

vars == <<inputs, results, savedCalculations, calculationName,
          showDeleteConfirm, calculationToDelete, localStorage, now,
          pendingReads, toastCall, resultsFor,
          jsonData, showJsonOutput, selectedPreset, downloaded, exportedFrom,
          sharedWith, savedWith,
          toasts, presetModules, presetOptions, language, effectPending,
          presetErrors, switches>>

\* the state of the JSON panel, the preset select and the downloads
exportVars == <<jsonData, showJsonOutput, selectedPreset, downloaded,
                exportedFrom>>

\* the state of the ToastProvider, of the preset catalogue and of i18n
providerVars == <<toasts, presetModules, presetOptions, language,
                  effectPending, presetErrors, switches>>

\* the working state refers to no saved entry's objects
NotShared == [inputs |-> <<>>, results |-> <<>>]

\* bounds of the model
MaxSaved   == 2
MaxNow     == 1
MaxPending == 1

Null == [k |-> "null", neg |-> FALSE, m |-> <<>>, e |-> 0]

\* what reading a property yields when the value has no such property
Undefined == <<"undefined">>

Fields == {"erd", "pitchCircleLeft", "pitchCircleRight", "flangeDistanceLeft",
           "flangeDistanceRight", "spokeHoleDiameter", "numberOfSpokes",
           "crossingsLeft", "crossingsRight"}

\* useState<Inputs> and useState<Results>
InitialInputs ==
    [erd |-> <<>>, pitchCircleLeft |-> <<>>, pitchCircleRight |-> <<>>,
     flangeDistanceLeft |-> <<>>, flangeDistanceRight |-> <<>>,
     spokeHoleDiameter |-> <<"2", ".", "6">>, numberOfSpokes |-> <<"3", "2">>,
     crossingsLeft |-> <<"3">>, crossingsRight |-> <<"3">>]

InitialResults == [left |-> Null, right |-> Null]

\* a showToast(t(key), type) call, and no call
Toast(key, type) == [message |-> key, type |-> type]
NoToast == [message |-> "", type |-> ""]

\* what the results panel tests before it shows the two lengths
ResultsShown == results.left # Null /\ results.right # Null

\* the min and max props of the NumberInput of a field
NumberInputProps(field) ==
    CASE field = "erd" -> [min |-> 1, max |-> 1000]
      [] field = "spokeHoleDiameter" -> [min |-> 1, max |-> 3]
      [] OTHER -> [min |-> 1, max |-> 100]

NumberFields == {"erd", "pitchCircleLeft", "pitchCircleRight",
                 "flangeDistanceLeft", "flangeDistanceRight",
                 "spokeHoleDiameter"}

\* NumberInput.handleChange: << >> when onChange is not called, else <<v>>
\* for the value v it is called with
NumberInputOnChange(newValue, min, max) ==
    LET numValue == parseFloat(newValue)
        typed    == ~EndsWithDot(newValue) /\ Len(newValue) > 1
    IN  IF newValue = <<>> THEN <<newValue>>
        ELSE IF newValue = <<".">> THEN <<newValue>>
        ELSE IF EndsWithDot(newValue)
                /\ ~IsNaN(parseFloat(SubSeq(newValue, 1, Len(newValue) - 1)))
             THEN <<newValue>>
        ELSE IF IsNaN(numValue) THEN <<>>
        ELSE IF FLt(numValue, FromInt(min)) /\ typed THEN <<IntToString(min)>>
        ELSE IF FLt(FromInt(max), numValue) /\ typed THEN <<IntToString(max)>>
        ELSE <<newValue>>

\* a variant of handleInputChange that writes the field into the object
\* the working inputs refer to, instead of into a copy of it
handleInputChangeInPlace(field, value) ==
    /\ inputs' = [inputs EXCEPT ![field] = value]
    /\ savedCalculations' =
          IF sharedWith.inputs = <<>> THEN savedCalculations
          ELSE [savedCalculations EXCEPT
                   ![sharedWith.inputs[1]].inputs[field] = value]
    /\ toastCall' = NoToast
    /\ UNCHANGED <<results, resultsFor, calculationName, showDeleteConfirm,
                   calculationToDelete, localStorage, now, pendingReads,
                   exportVars, providerVars, sharedWith, savedWith>>

handleInputChange(field, value) ==
    /\ inputs' = [inputs EXCEPT ![field] = value]
    /\ sharedWith' = [sharedWith EXCEPT !.inputs = <<>>]
    /\ toastCall' = NoToast
    /\ UNCHANGED <<results, resultsFor, savedCalculations, calculationName,
                   showDeleteConfirm, calculationToDelete, localStorage, now,
                   pendingReads, exportVars, providerVars, savedWith>>

\* the user edits a number field: handleChange, then the onChange prop
NumberInputChange(field, newValue) ==
    LET props == NumberInputProps(field)
        call  == NumberInputOnChange(newValue, props.min, props.max)
    IN  /\ call # <<>>
        /\ handleInputChange(field, call[1])

\* the user picks an option of one of the three selects
SelectChange(field, option) == handleInputChange(field, option)

\* a variant of Lengths that takes the crossings of both sides from the
\* left select
LengthsLeftCrossings(in) ==
    LET erdNum    == parseFloat(in.erd)
        shdNum    == parseFloat(in.spokeHoleDiameter)
        spokesNum == parseInt(in.numberOfSpokes)
        intlNum   == parseInt(in.crossingsLeft)
    IN  [left  |-> calculateLength(parseFloat(in.pitchCircleLeft),
                                   parseFloat(in.flangeDistanceLeft), intlNum,
                                   erdNum, spokesNum, shdNum),
         right |-> calculateLength(parseFloat(in.pitchCircleRight),
                                   parseFloat(in.flangeDistanceRight), intlNum,
                                   erdNum, spokesNum, shdNum)]

\* the two lengths calculateSpokeLength computes from a record of inputs
Lengths(in) ==
    LET erdNum    == parseFloat(in.erd)
        pclNum    == parseFloat(in.pitchCircleLeft)
        pcrNum    == parseFloat(in.pitchCircleRight)
        fdlNum    == parseFloat(in.flangeDistanceLeft)
        fdrNum    == parseFloat(in.flangeDistanceRight)
        shdNum    == parseFloat(in.spokeHoleDiameter)
        spokesNum == parseInt(in.numberOfSpokes)
        intlNum   == parseInt(in.crossingsLeft)
        intrNum   == parseInt(in.crossingsRight)
    IN  [left  |-> calculateLength(pclNum, fdlNum, intlNum,
                                   erdNum, spokesNum, shdNum),
         right |-> calculateLength(pcrNum, fdrNum, intrNum,
                                   erdNum, spokesNum, shdNum)]

\* the test "!erd || !pitchCircleLeft || ..." on a record of inputs
AnyFieldEmpty(in) == \E f \in Fields : in[f] = <<>> \/ in[f] = Undefined

\* a variant of calculateSpokeLength that keeps a left result already shown
calculateKeepingLeft ==
    /\ IF AnyFieldEmpty(inputs)
       THEN /\ toastCall' = Toast("alerts.fillAllFields", "warning")
            /\ UNCHANGED <<results, resultsFor, sharedWith>>
       ELSE /\ results' = [left  |-> IF results.left # Null THEN results.left
                                     ELSE Lengths(inputs).left,
                           right |-> Lengths(inputs).right]
            /\ resultsFor' = [by |-> "calculate", inputs |-> inputs]
            /\ sharedWith' = [sharedWith EXCEPT !.results = <<>>]
            /\ toastCall' = NoToast
    /\ UNCHANGED <<inputs, savedCalculations, calculationName,
                   showDeleteConfirm, calculationToDelete, localStorage, now,
                   pendingReads, exportVars, providerVars, savedWith>>

calculateSpokeLength ==
    /\ IF AnyFieldEmpty(inputs)
       THEN /\ toastCall' = Toast("alerts.fillAllFields", "warning")
            /\ UNCHANGED <<results, resultsFor, sharedWith>>
       ELSE /\ results' = Lengths(inputs)
            /\ resultsFor' = [by |-> "calculate", inputs |-> inputs]
            /\ sharedWith' = [sharedWith EXCEPT !.results = <<>>]
            /\ toastCall' = NoToast
    /\ UNCHANGED <<inputs, savedCalculations, calculationName,
                   showDeleteConfirm, calculationToDelete, localStorage, now,
                   pendingReads, exportVars, providerVars, savedWith>>

\* JSON.parse(JSON.stringify(x)) of a Number or null: NaN and the
\* infinities are written as null, minus zero as 0, and any other Number
\* as the shortest decimal that reads back as the same Number
JsonNumber(x) ==
    IF x = Null \/ ~IsFinite(x) THEN Null
    ELSE IF IsZero(x) THEN Zero
    ELSE x

\* JSON.parse(JSON.stringify(calcs)) of a list of saved calculations
JsonCalculations(calcs) ==
    [i \in 1..Len(calcs) |->
        [calcs[i] EXCEPT !.results = [left  |-> JsonNumber(@.left),
                                      right |-> JsonNumber(@.right)]]]

\* the entry 'spokeCalculations' of localStorage: absent, or the text
\* written by setItem, held as the value the text parses to
NoItem == [present |-> FALSE, value |-> <<>>]
Item(calcs) == [present |-> TRUE, value |-> JsonCalculations(calcs)]

\* new Date().toLocaleString('ja-JP') at clock value ms: the date and time
\* of day to the second
ToLocaleString(ms) == ms \div 1000

setCalculationName(value) ==
    /\ calculationName' = value
    /\ toastCall' = NoToast
    /\ UNCHANGED <<inputs, results, resultsFor, savedCalculations,
                   showDeleteConfirm, calculationToDelete, localStorage, now,
                   pendingReads, exportVars, providerVars, sharedWith,
                   savedWith>>

\* a variant of saveCalculation that puts the new entry first
savePrepending ==
    /\ StrTrim(calculationName) # <<>>
    /\ results.left # Null /\ results.right # Null
    /\ Len(savedCalculations) < MaxSaved
    /\ LET newCalculation == [id        |-> now,
                              name      |-> calculationName,
                              inputs    |-> inputs,
                              results   |-> results,
                              timestamp |-> ToLocaleString(now)]
           updated == <<newCalculation>> \o savedCalculations
       IN  /\ savedCalculations' = updated
           /\ savedWith' = <<[inputs |-> inputs, results |-> results]>>
                               \o savedWith
           /\ localStorage' = Item(updated)
           /\ calculationName' = <<>>
           /\ toastCall' = Toast("alerts.saved", "success")
           /\ UNCHANGED <<inputs, results, resultsFor, showDeleteConfirm,
                          calculationToDelete, now, pendingReads, exportVars,
                          providerVars,
                          sharedWith>>

\* a variant of saveCalculation that asks for a name only
saveUncalculated ==
    IF StrTrim(calculationName) = <<>>
    THEN /\ toastCall' = Toast("alerts.enterCalculationName", "warning")
         /\ UNCHANGED <<inputs, results, resultsFor, savedCalculations,
                        calculationName, showDeleteConfirm,
                        calculationToDelete, localStorage, now, pendingReads,
                        exportVars, providerVars, sharedWith, savedWith>>
    ELSE LET newCalculation == [id        |-> now,
                                name      |-> calculationName,
                                inputs    |-> inputs,
                                results   |-> results,
                                timestamp |-> ToLocaleString(now)]
             updated == Append(savedCalculations, newCalculation)
         IN  /\ Len(savedCalculations) < MaxSaved
             /\ savedCalculations' = updated
             /\ savedWith' = Append(savedWith, [inputs  |-> inputs,
                                                results |-> results])
             /\ localStorage' = Item(updated)
             /\ calculationName' = <<>>
             /\ toastCall' = Toast("alerts.saved", "success")
             /\ UNCHANGED <<inputs, results, resultsFor, showDeleteConfirm,
                            calculationToDelete, now, pendingReads, exportVars,
                            providerVars, sharedWith>>

saveCalculation ==
    IF StrTrim(calculationName) = <<>>
    THEN /\ toastCall' = Toast("alerts.enterCalculationName", "warning")
         /\ UNCHANGED <<inputs, results, resultsFor, savedCalculations,
                        calculationName, showDeleteConfirm,
                        calculationToDelete, localStorage, now, pendingReads,
                        exportVars, providerVars, sharedWith, savedWith>>
    ELSE IF results.left = Null \/ results.right = Null
    THEN /\ toastCall' = Toast("alerts.performCalculationFirst", "warning")
         /\ UNCHANGED <<inputs, results, resultsFor, savedCalculations,
                        calculationName, showDeleteConfirm,
                        calculationToDelete, localStorage, now, pendingReads,
                        exportVars, providerVars, sharedWith, savedWith>>
    ELSE LET newCalculation == [id        |-> now,
                                name      |-> calculationName,
                                inputs    |-> inputs,
                                results   |-> results,
                                timestamp |-> ToLocaleString(now)]
             updated == Append(savedCalculations, newCalculation)
         IN  /\ Len(savedCalculations) < MaxSaved
             /\ savedCalculations' = updated
             /\ savedWith' = Append(savedWith, [inputs  |-> inputs,
                                                results |-> results])
             /\ localStorage' = Item(updated)
             /\ calculationName' = <<>>
             /\ toastCall' = Toast("alerts.saved", "success")
             /\ UNCHANGED <<inputs, results, resultsFor, showDeleteConfirm,
                            calculationToDelete, now, pendingReads, exportVars,
                            providerVars, sharedWith>>

\* a variant of loadCalculation that takes the inputs of the entry only
loadInputsOnly(i) ==
    /\ i \in 1..Len(savedCalculations)
    /\ inputs' = savedCalculations[i].inputs
    /\ sharedWith' = [sharedWith EXCEPT !.inputs = <<i>>]
    /\ toastCall' = NoToast
    /\ UNCHANGED <<results, resultsFor, savedCalculations, calculationName,
                   showDeleteConfirm, calculationToDelete, localStorage, now,
                   pendingReads, exportVars, providerVars, savedWith>>

\* the load button of the i-th entry of the list
loadCalculation(i) ==
    /\ i \in 1..Len(savedCalculations)
    /\ inputs' = savedCalculations[i].inputs
    /\ results' = savedCalculations[i].results
    /\ resultsFor' = [by |-> "load", inputs |-> savedCalculations[i].inputs]
    /\ sharedWith' = [inputs |-> <<i>>, results |-> <<i>>]
    /\ toastCall' = NoToast
    /\ UNCHANGED <<savedCalculations, calculationName, showDeleteConfirm,
                   calculationToDelete, localStorage, now, pendingReads,
                   exportVars, providerVars, savedWith>>

\* a variant of deleteCalculation that deletes without asking
deleteAtOnce(i) ==
    /\ i \in 1..Len(savedCalculations)
    /\ savedCalculations' = SubSeq(savedCalculations, 1, i - 1)
                               \o SubSeq(savedCalculations, i + 1,
                                         Len(savedCalculations))
    /\ savedWith' = SubSeq(savedWith, 1, i - 1)
                       \o SubSeq(savedWith, i + 1, Len(savedWith))
    /\ localStorage' = [present |-> TRUE, value |-> savedCalculations']
    /\ toastCall' = NoToast
    /\ UNCHANGED <<inputs, results, resultsFor, calculationName,
                   showDeleteConfirm, calculationToDelete, now, pendingReads,
                   exportVars, providerVars, sharedWith>>

\* the delete button of the i-th entry; calculationToDelete is << >> for
\* null and <<id>> for an id
deleteCalculation(i) ==
    /\ i \in 1..Len(savedCalculations)
    /\ calculationToDelete' = <<savedCalculations[i].id>>
    /\ showDeleteConfirm' = TRUE
    /\ toastCall' = NoToast
    /\ UNCHANGED <<inputs, results, resultsFor, savedCalculations,
                   calculationName, localStorage, now, pendingReads,
                   exportVars, providerVars, sharedWith, savedWith>>

\* a variant of the filter: calcs.splice(calcs.findIndex(calc => calc.id
\* === id), 1), which takes out the first entry of that id, and the last
\* entry when there is none of that id
SpliceOutId(calcs, id) ==
    LET found == {i \in 1..Len(calcs) : calcs[i].id = id}
        index == IF found = {} THEN Len(calcs)
                 ELSE CHOOSE i \in found : \A j \in found : i <= j
    IN  IF calcs = <<>> THEN <<>>
        ELSE SubSeq(calcs, 1, index - 1)
                \o SubSeq(calcs, index + 1, Len(calcs))

\* calcs.filter(calc => calc.id !== id)
RECURSIVE FilterOutId(_, _)
FilterOutId(calcs, id) ==
    IF calcs = <<>> THEN <<>>
    ELSE IF calcs[1].id # id THEN <<calcs[1]>> \o FilterOutId(Tail(calcs), id)
    ELSE FilterOutId(Tail(calcs), id)

\* what runs parallel to the entries filter keeps: the members of with
\* at the positions of the entries of calcs whose id is not id
RECURSIVE KeptWith(_, _, _)
KeptWith(calcs, with, id) ==
    IF calcs = <<>> THEN <<>>
    ELSE IF calcs[1].id # id
         THEN <<with[1]>> \o KeptWith(Tail(calcs), Tail(with), id)
    ELSE KeptWith(Tail(calcs), Tail(with), id)

\* where the entry a reference points to stands after the filter: nowhere
\* when it is filtered out
RefAfterFilter(calcs, ref, id) ==
    IF ref = <<>> THEN <<>>
    ELSE IF calcs[ref[1]].id = id THEN <<>>
    ELSE <<Len(FilterOutId(SubSeq(calcs, 1, ref[1]), id))>>

\* the confirm button of the dialog, which is rendered while
\* showDeleteConfirm holds
confirmDelete ==
    /\ showDeleteConfirm
    /\ IF calculationToDelete # <<>>
       THEN LET updated == FilterOutId(savedCalculations,
                                       calculationToDelete[1])
            IN  /\ savedCalculations' = updated
                /\ savedWith' = KeptWith(savedCalculations, savedWith,
                                         calculationToDelete[1])
                /\ sharedWith' =
                      [inputs  |-> RefAfterFilter(savedCalculations,
                                                  sharedWith.inputs,
                                                  calculationToDelete[1]),
                       results |-> RefAfterFilter(savedCalculations,
                                                  sharedWith.results,
                                                  calculationToDelete[1])]
                /\ localStorage' = Item(updated)
                /\ toastCall' = Toast("alerts.deleted", "success")
       ELSE /\ toastCall' = NoToast
            /\ UNCHANGED <<savedCalculations, localStorage, savedWith,
                           sharedWith>>
    /\ showDeleteConfirm' = FALSE
    /\ calculationToDelete' = <<>>
    /\ UNCHANGED <<inputs, results, resultsFor, calculationName, now,
                   pendingReads, exportVars, providerVars>>

cancelDelete ==
    /\ showDeleteConfirm
    /\ showDeleteConfirm' = FALSE
    /\ calculationToDelete' = <<>>
    /\ toastCall' = NoToast
    /\ UNCHANGED <<inputs, results, resultsFor, savedCalculations,
                   calculationName, localStorage, now, pendingReads,
                   exportVars, providerVars, sharedWith, savedWith>>

\* the user picks a file: a FileReader is started and the handler returns
loadFromJSON(file) ==
    /\ Len(pendingReads) < MaxPending
    /\ pendingReads' = Append(pendingReads, file)
    /\ toastCall' = NoToast
    /\ UNCHANGED <<inputs, results, resultsFor, savedCalculations,
                   calculationName, showDeleteConfirm, calculationToDelete,
                   localStorage, now, exportVars, providerVars, sharedWith,
                   savedWith>>

\* A JSON value that is a string is [string |-> s]; an object is the record
\* of its properties.
JsonString(s) == [string |-> s]

IsJsonObject(v) == "string" \notin DOMAIN v

\* what && takes for true: every object, every string but the empty one
Truthy(v) == IsJsonObject(v) \/ v.string # <<>>

\* v.erd, v.pcdLeft, ... as the form reads them: a string has none of them
ReadFields(v) == IF IsJsonObject(v) THEN v ELSE [f \in Fields |-> Undefined]

\* jsonData.inputs && jsonData.results; parsed is the handler's local
\* jsonData
HasInputsAndResults(parsed) ==
    /\ "inputs" \in DOMAIN parsed
    /\ Truthy(parsed.inputs)
    /\ "results" \in DOMAIN parsed
    /\ Truthy(parsed.results)

\* reader.onload of the i-th read in flight.  A file is [parses, data]:
\* whether JSON.parse accepts its text, and the object the text parses to
ReaderOnload(i) ==
    /\ i \in 1..Len(pendingReads)
    /\ pendingReads' = SubSeq(pendingReads, 1, i - 1)
                          \o SubSeq(pendingReads, i + 1, Len(pendingReads))
    /\ LET file   == pendingReads[i]
           parsed == file.data
       IN  IF ~file.parses
           THEN /\ toastCall' = Toast("alerts.jsonLoadFailed", "error")
                /\ UNCHANGED <<inputs, results, resultsFor, sharedWith>>
           ELSE IF HasInputsAndResults(parsed)
           THEN /\ inputs' = ReadFields(parsed.inputs)
                /\ results' = parsed.results
                /\ resultsFor' = [by     |-> "import",
                                  inputs |-> ReadFields(parsed.inputs)]
                /\ sharedWith' = NotShared
                /\ toastCall' = Toast("alerts.jsonLoaded", "success")
           ELSE /\ toastCall' = Toast("alerts.invalidJsonFormat", "error")
                /\ UNCHANGED <<inputs, results, resultsFor, sharedWith>>
    /\ UNCHANGED <<savedCalculations, calculationName, showDeleteConfirm,
                   calculationToDelete, localStorage, now, exportVars,
                   providerVars,
                   savedWith>>

\* new Date().toISOString() at clock value ms: the day and the time of day
\* to the millisecond
ToISOString(ms) == [date |-> ms \div 86400000, time |-> ms % 86400000]

\* a text that JSON.parse rejects, as the empty text jsonData starts with
NotJson == [parses |-> FALSE, data |-> [error |-> "SyntaxError"]]

\* JSON.stringify(exportData, null, 2), held like a file: as the value the
\* text parses to.  The inputs are strings, which are written and read back
\* as they are; the results are Numbers.
ExportDocument(in, res, ms) ==
    [parses |-> TRUE,
     data   |-> [inputs    |-> in,
                 results   |-> [left  |-> JsonNumber(res.left),
                                right |-> JsonNumber(res.right)],
                 timestamp |-> ToISOString(ms),
                 metadata  |-> [calculator |->
                                    "Bicycle Spoke Length Calculator",
                                version    |-> "1.0"]]]

exportToJSON ==
    /\ IF results.left = Null \/ results.right = Null
       THEN /\ toastCall' = Toast("alerts.performCalculationFirst", "warning")
            /\ UNCHANGED <<jsonData, showJsonOutput, exportedFrom>>
       ELSE /\ jsonData' = ExportDocument(inputs, results, now)
            /\ exportedFrom' = [inputs |-> inputs, results |-> results]
            /\ showJsonOutput' = TRUE
            /\ toastCall' = NoToast
    /\ UNCHANGED <<inputs, results, resultsFor, savedCalculations,
                   calculationName, showDeleteConfirm, calculationToDelete,
                   localStorage, now, pendingReads, selectedPreset, downloaded,
                   sharedWith, savedWith, providerVars>>

\* the close button of the JSON panel, which is rendered while
\* showJsonOutput holds
closeJsonOutput ==
    /\ showJsonOutput
    /\ showJsonOutput' = FALSE
    /\ toastCall' = NoToast
    /\ UNCHANGED <<inputs, results, resultsFor, savedCalculations,
                   calculationName, showDeleteConfirm, calculationToDelete,
                   localStorage, now, pendingReads, jsonData, selectedPreset,
                   downloaded, exportedFrom, sharedWith, savedWith,
                   providerVars>>

\* the download button of the JSON panel: the browser writes a file with
\* the text of jsonData.  downloaded holds the last such file and what it
\* was made from.
downloadJSON ==
    /\ showJsonOutput
    /\ downloaded' = <<[file |-> jsonData, from |-> exportedFrom]>>
    /\ toastCall' = Toast("alerts.jsonDownloaded", "success")
    /\ UNCHANGED <<inputs, results, resultsFor, savedCalculations,
                   calculationName, showDeleteConfirm, calculationToDelete,
                   localStorage, now, pendingReads, jsonData, showJsonOutput,
                   selectedPreset, exportedFrom, sharedWith, savedWith,
                   providerVars>>

\* presetOptions once loadPresets has run: one option per bundled document
\* that has inputs and results, all nine input fields non-empty and
\* numeric results.  The catalogue here holds one such document, for the
\* wheel of the worked example.
PresetOptions ==
    <<[id   |-> "road-32h",
       name |-> "Road 32h",
       data |-> [inputs  |-> [erd                 |-> <<"5", "9", "0">>,
                              pitchCircleLeft     |-> <<"4", "5">>,
                              pitchCircleRight    |-> <<"5", "8">>,
                              flangeDistanceLeft  |-> <<"3", "5">>,
                              flangeDistanceRight |-> <<"2", "1">>,
                              spokeHoleDiameter   |-> <<"2", ".", "6">>,
                              numberOfSpokes      |-> <<"3", "2">>,
                              crossingsLeft       |-> <<"3">>,
                              crossingsRight      |-> <<"3">>],
                 results |-> [left  |-> parseFloat(<<"2", "8", "7", ".", "9">>),
                              right |-> parseFloat(<<"2", "8", "4", ".", "6">>)]]]>>

\* the preset select; "" is its placeholder option and found holds what
\* presetOptions.find gives, << >> for undefined
loadPreset(presetId) ==
    /\ LET found == SelectSeq(presetOptions, LAMBDA p : p.id = presetId)
       IN  IF presetId # "" /\ found # <<>>
           THEN /\ inputs' = found[1].data.inputs
                /\ results' = found[1].data.results
                /\ resultsFor' = [by |-> "preset",
                                  inputs |-> found[1].data.inputs]
                /\ selectedPreset' = presetId
                /\ sharedWith' = NotShared
           ELSE UNCHANGED <<inputs, results, resultsFor, selectedPreset,
                            sharedWith>>
    /\ toastCall' = NoToast
    /\ UNCHANGED <<savedCalculations, calculationName, showDeleteConfirm,
                   calculationToDelete, localStorage, now, pendingReads,
                   jsonData, showJsonOutput, downloaded, exportedFrom,
                   savedWith, providerVars>>

\* the [inputs, results] of every entry of a list of saved calculations
WithOf(calcs) ==
    [i \in 1..Len(calcs) |-> [inputs  |-> calcs[i].inputs,
                              results |-> calcs[i].results]]

\* the saved calculations back to front
Reversed(calcs) == [i \in 1..Len(calcs) |-> calcs[Len(calcs) + 1 - i]]

\* a variant of Reload that reads the stored array back to front
ReloadReversed ==
    /\ inputs' = InitialInputs
    /\ results' = InitialResults
    /\ resultsFor' = [by |-> "none", inputs |-> InitialInputs]
    /\ calculationName' = <<>>
    /\ showDeleteConfirm' = FALSE
    /\ calculationToDelete' = <<>>
    /\ pendingReads' = <<>>
    /\ toastCall' = NoToast
    /\ jsonData' = NotJson
    /\ exportedFrom' = [inputs |-> InitialInputs, results |-> InitialResults]
    /\ showJsonOutput' = FALSE
    /\ selectedPreset' = ""
    /\ sharedWith' = NotShared
    /\ savedCalculations' = IF localStorage.present
                            THEN Reversed(localStorage.value)
                            ELSE <<>>
    /\ savedWith' = IF localStorage.present
                    THEN WithOf(Reversed(localStorage.value))
                    ELSE <<>>
    /\ UNCHANGED <<localStorage, now, downloaded, providerVars>>

\* the page is loaded again: the component is constructed anew and its
\* startup effect reads the saved calculations back from localStorage.
\* Reads in flight end with the page; files already downloaded stay.
Reload ==
    /\ inputs' = InitialInputs
    /\ results' = InitialResults
    /\ resultsFor' = [by |-> "none", inputs |-> InitialInputs]
    /\ calculationName' = <<>>
    /\ showDeleteConfirm' = FALSE
    /\ calculationToDelete' = <<>>
    /\ pendingReads' = <<>>
    /\ toastCall' = NoToast
    /\ jsonData' = NotJson
    /\ exportedFrom' = [inputs |-> InitialInputs, results |-> InitialResults]
    /\ showJsonOutput' = FALSE
    /\ selectedPreset' = ""
    /\ sharedWith' = NotShared
    /\ savedCalculations' = IF localStorage.present THEN localStorage.value
                            ELSE <<>>
    /\ savedWith' = IF localStorage.present THEN WithOf(localStorage.value)
                    ELSE <<>>
    /\ UNCHANGED <<localStorage, now, downloaded, providerVars>>

\* a millisecond passes
Tick ==
    /\ now < MaxNow
    /\ now' = now + 1
    /\ UNCHANGED <<inputs, results, resultsFor, savedCalculations,
                   calculationName, showDeleteConfirm, calculationToDelete,
                   localStorage, pendingReads, toastCall, exportVars,
                   providerVars, sharedWith, savedWith>>

(***************************************************************************)
(* The ToastProvider, the Toast component and the loader of the presets.   *)
(* The handlers above record the call they make on showToast in toastCall  *)
(* and leave the list of the provider alone; the list is followed where    *)
(* the provider itself is studied, and there showToast stands for the call *)
(* made by any handler.                                                    *)
(***************************************************************************)
MaxToasts   == 3
MaxModules  == 2
MaxSwitches == 1

\* the variables of the App component and of the browser that the provider
\* and the loader of the presets leave alone
appVars == <<inputs, results, resultsFor, savedCalculations, calculationName,
             showDeleteConfirm, calculationToDelete, localStorage,
             pendingReads, exportVars, sharedWith, savedWith>>

\* Date.now().toString() at the clock value of the model
ToastId == ToString(now)

\* what mounting the Toast of a new list entry can give.  The list is
\* rendered with key = toast.id: an entry whose id no other entry has is
\* mounted and its effect sets the timer; for an entry whose key is already
\* in the list React may mount a second component or omit it.
MountOutcomes(prev) ==
    IF \E i \in 1..Len(prev) : prev[i].id = ToastId
    THEN {"set", "none"}
    ELSE {"set"}

\* setToasts(prev => [...prev, newToast]), with the timer of the component
\* mounted for the new entry; mark singles out one toast to follow
ToastAdded(prev, message, type, timer, mark) ==
    Append(prev, [id |-> ToastId, message |-> message, type |-> type,
                  timer |-> timer, mark |-> mark])

\* setToasts(prev => prev.filter(toast => toast.id !== id))
removeToast(prev, id) == SelectSeq(prev, LAMBDA toast : toast.id # id)

MarkedShown == \E i \in 1..Len(toasts) : toasts[i].mark

\* a new toast is marked only while no other one is
Marks == IF MarkedShown THEN {FALSE} ELSE {FALSE, TRUE}

\* showToast where the arrival of a toast clears the timers of the toasts
\* already shown
showToastClearingTimers(message, type) ==
    /\ Len(toasts) < MaxToasts
    /\ \E timer \in MountOutcomes(toasts), mark \in Marks :
          toasts' = ToastAdded([i \in 1..Len(toasts) |->
                                   [toasts[i] EXCEPT !.timer = "none"]],
                               message, type, timer, mark)
    /\ toastCall' = Toast(message, type)
    /\ UNCHANGED <<appVars, now, presetModules, presetOptions, language,
                   effectPending, presetErrors, switches>>

\* showToast(message, type), called by a handler of the application
showToast(message, type) ==
    /\ Len(toasts) < MaxToasts
    /\ \E timer \in MountOutcomes(toasts), mark \in Marks :
          toasts' = ToastAdded(toasts, message, type, timer, mark)
    /\ toastCall' = Toast(message, type)
    /\ UNCHANGED <<appVars, now, presetModules, presetOptions, language,
                   effectPending, presetErrors, switches>>

\* the timers are all set for 5000 ms, so the one set first is the one to
\* fire first: the first toast of the list whose timer is set
FirstTimer ==
    CHOOSE i \in 1..Len(toasts) :
        /\ toasts[i].timer = "set"
        /\ \A j \in 1..(i - 1) : toasts[j].timer # "set"

\* the callback of setTimeout in Toast: onRemove(toast.id)
TimerFires ==
    /\ \E i \in 1..Len(toasts) : toasts[i].timer = "set"
    /\ toasts' = removeToast(toasts, toasts[FirstTimer].id)
    /\ toastCall' = NoToast
    /\ UNCHANGED <<appVars, now, presetModules, presetOptions, language,
                   effectPending, presetErrors, switches>>

\* the close button of the i-th toast: onRemove(toast.id)
CloseClick(i) ==
    /\ i \in 1..Len(toasts)
    /\ toasts' = removeToast(toasts, toasts[i].id)
    /\ toastCall' = NoToast
    /\ UNCHANGED <<appVars, now, presetModules, presetOptions, language,
                   effectPending, presetErrors, switches>>

\* data.inputs[field] in the loader of the presets: undefined when the
\* document has no such member
InputOf(data, field) ==
    IF IsJsonObject(data.inputs) /\ field \in DOMAIN data.inputs
    THEN data.inputs[field]
    ELSE Undefined

\* requiredInputs.filter(field => !data.inputs[field])
missingFields(data) ==
    {field \in Fields : InputOf(data, field) \in {Undefined, <<>>}}

\* typeof data.results[side] === 'number'
TypeofNumber(data, side) ==
    /\ side \in DOMAIN data.results
    /\ "k" \in DOMAIN data.results[side]
    /\ data.results[side].k # "null"

\* a document the loader does not skip
PresetKept(data) ==
    /\ HasInputsAndResults(data)
    /\ missingFields(data) = {}
    /\ TypeofNumber(data, "left")
    /\ TypeofNumber(data, "right")

\* the paths of the bundled documents, in the order of Object.entries
PresetPaths ==
    <<"./presets/road-32h.json", "./presets/mtb-32h.json",
      "./presets/track-28h.json", "./presets/gravel-36h.json">>

\* path.split('/').pop()?.replace('.json', '')
fileName(path) ==
    CASE path = "./presets/road-32h.json" -> "road-32h"
      [] path = "./presets/mtb-32h.json" -> "mtb-32h"
      [] path = "./presets/track-28h.json" -> "track-28h"
      [] path = "./presets/gravel-36h.json" -> "gravel-36h"

\* data.displayName, or the file name with spaces for its hyphens and its
\* words capitalised
displayName(data, name) ==
    IF "displayName" \in DOMAIN data THEN data.displayName
    ELSE CASE name = "road-32h" -> "Road 32h"
           [] name = "mtb-32h" -> "Mtb 32h"
           [] name = "track-28h" -> "Track 28h"
           [] name = "gravel-36h" -> "Gravel 36h"

\* the presets the loader pushes for a list of [path, module] entries
PresetsOf(modules) ==
    LET kept == SelectSeq(modules, LAMBDA entry : PresetKept(entry.module))
    IN  [i \in 1..Len(kept) |->
            [id   |-> fileName(kept[i].path),
             name |-> displayName(kept[i].module, fileName(kept[i].path)),
             data |-> kept[i].module]]

\* the effect of App that loads the presets: it runs after the first
\* render and after every render in which showToast or t has changed
loadPresets ==
    /\ effectPending
    /\ effectPending' = FALSE
    /\ LET presets  == PresetsOf(presetModules)
           hasError == Len(presets) < Len(presetModules)
       IN  /\ presetOptions' = presets
           /\ IF hasError
              THEN /\ \E timer \in MountOutcomes(toasts) :
                         toasts' = ToastAdded(toasts, "alerts.presetLoadError",
                                              "error", timer, FALSE)
                   /\ toastCall' = Toast("alerts.presetLoadError", "error")
                   /\ presetErrors' = presetErrors + 1
              ELSE /\ toastCall' = NoToast
                   /\ UNCHANGED <<toasts, presetErrors>>
    /\ UNCHANGED <<appVars, now, presetModules, language, switches>>

\* the language select.  i18n.changeLanguage gives useTranslation a new t,
\* which is a dependency of the effect that loads the presets; language
\* stands for i18n.language and for the preferredLanguage item as well
handleLanguageChange(lang) ==
    /\ lang # language
    /\ switches < MaxSwitches
    /\ language' = lang
    /\ switches' = switches + 1
    /\ effectPending' = TRUE
    /\ toastCall' = NoToast
    /\ UNCHANGED <<appVars, now, toasts, presetModules, presetOptions,
                   presetErrors>>

(***************************************************************************)
(* Part 5: the environment (what the user types, picks and imports) and    *)
(* the specifications.                                                     *)
(***************************************************************************)

\* a complete form: the wheel of the worked example on the left, a wider
\* flange nearer the centre on the right
InputsValid ==
    [erd |-> <<"5", "9", "0">>,
     pitchCircleLeft |-> <<"4", "5">>, pitchCircleRight |-> <<"5", "8">>,
     flangeDistanceLeft |-> <<"3", "5">>, flangeDistanceRight |-> <<"2", "1">>,
     spokeHoleDiameter |-> <<"2", ".", "6">>, numberOfSpokes |-> <<"3", "2">>,
     crossingsLeft |-> <<"3">>, crossingsRight |-> <<"3">>]

\* the results member of a file exported for InputsValid: the JSON numbers
\* 287.9 and 284.6
ResultsValid ==
    [left  |-> parseFloat(<<"2", "8", "7", ".", "9">>),
     right |-> parseFloat(<<"2", "8", "4", ".", "6">>)]

\* the files the user imports: an export of the application, two edited
\* exports (an ERD of "." and a spoke count of "0"), a JSON object without
\* results, and a text that is not JSON
FileValid == [parses |-> TRUE,
              data |-> [inputs |-> InputsValid, results |-> ResultsValid]]
FileDotErd == [parses |-> TRUE,
               data |-> [inputs  |-> [InputsValid EXCEPT !.erd = <<".">>],
                         results |-> ResultsValid]]
FileZeroSpokes ==
    [parses |-> TRUE,
     data |-> [inputs  |-> [InputsValid EXCEPT !.numberOfSpokes = <<"0">>],
               results |-> ResultsValid]]
FileNoResults == [parses |-> TRUE, data |-> [inputs |-> InputsValid]]
FileNotJson == [parses |-> FALSE, data |-> [error |-> "SyntaxError"]]

\* {"inputs": "abc", "results": {"left": 287.9, "right": 284.6}}
FileScalarInputs ==
    [parses |-> TRUE,
     data   |-> [inputs  |-> JsonString(<<"a", "b", "c">>),
                 results |-> ResultsValid]]

Files == {FileValid, FileDotErd, FileZeroSpokes, FileNoResults, FileNotJson,
          FileScalarInputs}

\* the catalogue bundled with the application in the specifications of the
\* form: the document of PresetOptions
BundledModules ==
    <<[path   |-> "./presets/road-32h.json",
       module |-> [inputs |-> InputsValid, results |-> ResultsValid]]>>

\* the documents a catalogue is made of: a valid one, one without
\* spokeHoleDiameter, one with an empty crossingsLeft, one without results
\* and one whose results are texts
PresetValid == [inputs |-> InputsValid, results |-> ResultsValid]
PresetNoHoleDiameter ==
    [inputs  |-> [f \in Fields \ {"spokeHoleDiameter"} |-> InputsValid[f]],
     results |-> ResultsValid]
PresetEmptyCrossings ==
    [inputs  |-> [InputsValid EXCEPT !.crossingsLeft = <<>>],
     results |-> ResultsValid]
PresetNoResults == [inputs |-> InputsValid]
PresetTextResults ==
    [inputs  |-> InputsValid,
     results |-> [left  |-> JsonString(<<"2", "8", "8">>),
                  right |-> JsonString(<<"2", "8", "5">>)]]

PresetDocuments == {PresetValid, PresetNoHoleDiameter, PresetEmptyCrossings,
                    PresetNoResults, PresetTextResults}

\* the catalogues of one to MaxModules documents
Catalogues ==
    UNION {{[i \in 1..n |-> [path |-> PresetPaths[i], module |-> d[i]]] :
               d \in [1..n -> PresetDocuments]} : n \in 1..MaxModules}

\* the values the user gives to the number inputs and to the selects
TypedValues(field) ==
    IF field = "erd" THEN {<<>>, <<"5", "9", "0">>, <<"5", "9", "0", "0">>}
    ELSE {}

SelectOptions(field) ==
    IF field = "crossingsLeft" THEN {<<"0">>, <<"3">>}
    ELSE IF field = "numberOfSpokes" THEN {<<>>, <<"3", "2">>}
    ELSE {}

SelectFields == {"numberOfSpokes", "crossingsLeft", "crossingsRight"}

TypedNames == {<<"a">>, <<" ">>}

\* the state after the component is constructed and its effects have run
\* in a browser whose localStorage has no entry
Init ==
    /\ inputs = InitialInputs
    /\ results = InitialResults
    /\ savedCalculations = <<>>
    /\ calculationName = <<>>
    /\ showDeleteConfirm = FALSE
    /\ calculationToDelete = <<>>
    /\ localStorage = NoItem
    /\ now = 0
    /\ pendingReads = <<>>
    /\ toastCall = NoToast
    /\ resultsFor = [by |-> "none", inputs |-> InitialInputs]
    /\ jsonData = NotJson
    /\ showJsonOutput = FALSE
    /\ selectedPreset = ""
    /\ downloaded = <<>>
    /\ exportedFrom = [inputs |-> InitialInputs, results |-> InitialResults]
    /\ sharedWith = NotShared
    /\ savedWith = <<>>
    /\ toasts = <<>>
    /\ presetModules = BundledModules
    /\ presetOptions = PresetOptions
    /\ language = "en"
    /\ effectPending = FALSE
    /\ presetErrors = 0
    /\ switches = 0

\* the form: editing, calculating and importing
NextForm ==
    \/ \E field \in NumberFields :
          \E newValue \in TypedValues(field) :
             NumberInputChange(field, newValue)
    \/ \E field \in SelectFields :
          \E option \in SelectOptions(field) : SelectChange(field, option)
    \/ calculateSpokeLength
    \/ \E file \in Files : loadFromJSON(file)
    \/ \E i \in 1..MaxPending : ReaderOnload(i)

SpecForm == Init /\ [][NextForm]_vars

\* the saved collection: a form filled from an exported file, calculating,
\* naming, saving, loading and deleting
NextSaved ==
    \/ loadFromJSON(FileValid)
    \/ \E i \in 1..MaxPending : ReaderOnload(i)
    \/ calculateSpokeLength
    \/ \E value \in TypedNames : setCalculationName(value)
    \/ saveCalculation
    \/ \E i \in 1..MaxSaved : loadCalculation(i)
    \/ \E i \in 1..MaxSaved : deleteCalculation(i)
    \/ confirmDelete
    \/ cancelDelete
    \/ Tick

SpecSaved == Init /\ [][NextSaved]_vars

\* the saved collection and its stored form: a form filled from a file
\* whose ERD is a lone point, calculating, naming, saving, loading, and the
\* page being loaded again
NextStore ==
    \/ loadFromJSON(FileDotErd)
    \/ \E i \in 1..MaxPending : ReaderOnload(i)
    \/ calculateSpokeLength
    \/ setCalculationName(<<"a">>)
    \/ saveCalculation
    \/ \E i \in 1..MaxSaved : loadCalculation(i)
    \/ Reload

SpecStore == Init /\ [][NextStore]_vars

\* saved entries and the working state: a form filled from the preset or
\* from an exported file, edited, calculated, saved and loaded
NextReuse ==
    \/ loadPreset("road-32h")
    \/ loadFromJSON(FileValid)
    \/ \E i \in 1..MaxPending : ReaderOnload(i)
    \/ NumberInputChange("erd", <<"5", "9", "0", "0">>)
    \/ calculateSpokeLength
    \/ setCalculationName(<<"a">>)
    \/ saveCalculation
    \/ \E i \in 1..MaxSaved : loadCalculation(i)
    \/ \E i \in 1..MaxSaved : deleteCalculation(i)
    \/ confirmDelete
    \/ cancelDelete

SpecReuse == Init /\ [][NextReuse]_vars

\* export and import: a form filled from a file, calculated, its document
\* put out, downloaded, and read back in
ExchangeFiles ==
    {FileDotErd} \cup {downloaded[i].file : i \in 1..Len(downloaded)}

NextExchange ==
    \/ \E file \in ExchangeFiles : loadFromJSON(file)
    \/ \E i \in 1..MaxPending : ReaderOnload(i)
    \/ calculateSpokeLength
    \/ exportToJSON
    \/ closeJsonOutput
    \/ downloadJSON

SpecExchange == Init /\ [][NextExchange]_vars

\* the calculation alone, started from any form of CalcInputs and from
\* any of a few values of the rest of the state: forms over a grid of
\* values, and the complete form with one field emptied
CalcInputs ==
    [erd : {<<"5", "9", "0">>, <<"5", "0", "0">>, <<".">>},
     pitchCircleLeft : {<<"4", "5">>, <<"3", "3", ".", "9">>},
     pitchCircleRight : {<<"5", "8">>},
     flangeDistanceLeft : {<<"3", "5">>},
     flangeDistanceRight : {<<"2", "1">>},
     spokeHoleDiameter : {<<"2", ".", "6">>},
     numberOfSpokes : {<<"3", "2">>, <<"3", "6">>, <<"0">>},
     crossingsLeft : {<<"3">>, <<"0">>},
     crossingsRight : {<<"3">>, <<"2">>}]
    \cup {[InputsValid EXCEPT ![f] = <<>>] : f \in Fields}

SavedEntry == [id |-> 0, name |-> <<"a">>, inputs |-> InputsValid,
               results |-> ResultsValid, timestamp |-> ToLocaleString(0)]

InitCalc ==
    /\ inputs \in CalcInputs
    /\ \/ /\ results = InitialResults
          /\ resultsFor = [by |-> "none", inputs |-> InitialInputs]
       \/ /\ results = ResultsValid
          /\ resultsFor = [by |-> "import", inputs |-> InputsValid]
    /\ \/ /\ savedCalculations = <<>>
          /\ localStorage = NoItem
       \/ /\ savedCalculations = <<SavedEntry>>
          /\ localStorage = Item(<<SavedEntry>>)
    /\ savedWith = WithOf(savedCalculations)
    /\ calculationName \in {<<>>, <<"a">>}
    /\ showDeleteConfirm = FALSE
    /\ calculationToDelete = <<>>
    /\ now = 0
    /\ pendingReads = <<>>
    /\ toastCall = NoToast
    /\ jsonData = NotJson
    /\ showJsonOutput = FALSE
    /\ selectedPreset = ""
    /\ downloaded = <<>>
    /\ exportedFrom = [inputs |-> InitialInputs, results |-> InitialResults]
    /\ sharedWith = NotShared
    /\ toasts = <<>>
    /\ presetModules = BundledModules
    /\ presetOptions = PresetOptions
    /\ language = "en"
    /\ effectPending = FALSE
    /\ presetErrors = 0
    /\ switches = 0

NextCalc == calculateSpokeLength

SpecCalc == InitCalc /\ [][NextCalc]_vars

\* the saved collection over restarts: a form filled from the preset,
\* naming, saving, deleting, and the page being loaded again
NextRestart ==
    \/ loadPreset("road-32h")
    \/ \E value \in {<<"a">>, <<"b">>} : setCalculationName(value)
    \/ saveCalculation
    \/ \E i \in 1..MaxSaved : deleteCalculation(i)
    \/ confirmDelete
    \/ cancelDelete
    \/ Reload
    \/ Tick

SpecRestart == Init /\ [][NextRestart]_vars

\* the application as it starts with a catalogue: the effect that loads
\* the presets is due, and nothing is in presetOptions yet
InitPresets ==
    /\ inputs = InitialInputs
    /\ results = InitialResults
    /\ savedCalculations = <<>>
    /\ calculationName = <<>>
    /\ showDeleteConfirm = FALSE
    /\ calculationToDelete = <<>>
    /\ localStorage = NoItem
    /\ now = 0
    /\ pendingReads = <<>>
    /\ toastCall = NoToast
    /\ resultsFor = [by |-> "none", inputs |-> InitialInputs]
    /\ jsonData = NotJson
    /\ showJsonOutput = FALSE
    /\ selectedPreset = ""
    /\ downloaded = <<>>
    /\ exportedFrom = [inputs |-> InitialInputs, results |-> InitialResults]
    /\ sharedWith = NotShared
    /\ savedWith = <<>>
    /\ toasts = <<>>
    /\ presetModules \in Catalogues
    /\ presetOptions = <<>>
    /\ language = "en"
    /\ effectPending = TRUE
    /\ presetErrors = 0
    /\ switches = 0

\* the options of the preset select: its placeholder and the presets
PresetIds == {""} \cup {presetOptions[i].id : i \in 1..Len(presetOptions)}

\* the catalogue: loading it, switching the language, picking a preset
NextPresets ==
    \/ loadPresets
    \/ \E lang \in {"en", "ja"} : handleLanguageChange(lang)
    \/ \E presetId \in PresetIds : loadPreset(presetId)

SpecPresets == InitPresets /\ [][NextPresets]_vars

\* the notifications: handlers call showToast, timers fire, the user closes
\* toasts, time passes
NextToast ==
    \/ showToast("alerts.saved", "success")
    \/ showToast("alerts.fillAllFields", "warning")
    \/ TimerFires
    \/ \E i \in 1..MaxToasts : CloseClick(i)
    \/ Tick

SpecToast == Init /\ [][NextToast]_vars

\* a timer that is set fires: setTimeout runs its callback once the 5000 ms
\* are over, whatever else is going on.  Nothing obliges the handlers, the
\* user or the clock of the model to do anything.
SpecToastFair == SpecToast /\ WF_vars(TimerFires)

(***************************************************************************)
(* Part 6: the properties.                                                 *)
(***************************************************************************)

\* C1: in every reachable state the entries of the saved collection have
\* pairwise distinct ids, whatever saves and deletions came before, two
\* saves in immediate succession included.
C1_SavedIdsDistinct ==
    \A i, j \in 1..Len(savedCalculations) :
        i # j => savedCalculations[i].id # savedCalculations[j].id

\* C2: whenever the results panel shows a result, the result was computed
\* from, or loaded together with, the inputs the form holds now: no result
\* stays on display after one of its inputs was edited.
C2_ShownResultsBelongToInputs ==
    ResultsShown => resultsFor.inputs = inputs

\* every one of the nine fields is there and reads as a number
AllFieldsParse(in) ==
    /\ ~AnyFieldEmpty(in)
    /\ \A f \in NumberFields : ~IsNaN(parseFloat(in[f]))
    /\ \A f \in SelectFields : ~IsNaN(parseInt(in[f]))

\* C3: a run of calculateSpokeLength on a form with a field that is
\* missing or does not read as a number (the empty string, a lone ".")
\* shows the warning toast and leaves results exactly as they were.
C3_UnparseableFieldRejected ==
    [][(calculateSpokeLength /\ ~AllFieldsParse(inputs))
          => /\ results' = results
             /\ toastCall' = Toast("alerts.fillAllFields", "warning")]_vars

\* x is a positive even integer
PositiveEven(x) ==
    IsFinite(x) /\ ~IsZero(x) /\ ~x.neg /\ IsInteger(FDiv(x, Two))

\* C4: a run of calculateSpokeLength on a form whose numberOfSpokes is not
\* a positive even integer (zero, say, from an imported file) rejects the
\* form before theta is evaluated: it stores nothing in results, so no NaN
\* and no infinity.
C4_BadSpokeCountRejected ==
    [][(calculateSpokeLength /\ ~PositiveEven(parseInt(inputs.numberOfSpokes)))
          => results' = results]_vars

\* the displayed results were stored by calculateSpokeLength
Calculated == resultsFor.by = "calculate"

\* a form is valid: every field reads as a number, the dimensions are
\* positive, the spoke count is a positive even integer and the crossings
\* are whole and not negative
Positive(x) == IsFinite(x) /\ ~IsZero(x) /\ ~x.neg

ValidInputs(in) ==
    /\ AllFieldsParse(in)
    /\ \A f \in NumberFields : Positive(parseFloat(in[f]))
    /\ PositiveEven(parseInt(in.numberOfSpokes))
    /\ \A f \in {"crossingsLeft", "crossingsRight"} :
          IsFinite(parseInt(in[f])) /\ ~parseInt(in[f]).neg

\* the three fields of one side of a form
SideFields(in, side) ==
    IF side = "left"
    THEN [pitchCircle |-> in.pitchCircleLeft,
          flangeDistance |-> in.flangeDistanceLeft,
          crossings |-> in.crossingsLeft]
    ELSE [pitchCircle |-> in.pitchCircleRight,
          flangeDistance |-> in.flangeDistanceRight,
          crossings |-> in.crossingsRight]

\* C and length of calculateLength for one side of a form
ChordOf(in, side) ==
    PlanarChord(parseFloat(SideFields(in, side).pitchCircle),
                parseInt(SideFields(in, side).crossings),
                parseFloat(in.erd), parseInt(in.numberOfSpokes))

RawLengthOf(in, side) ==
    RawLength(parseFloat(SideFields(in, side).pitchCircle),
              parseFloat(SideFields(in, side).flangeDistance),
              parseInt(SideFields(in, side).crossings),
              parseFloat(in.erd), parseInt(in.numberOfSpokes),
              parseFloat(in.spokeHoleDiameter))

\* r is length rounded down to a tenth, the products taken as the program
\* takes them, in Number arithmetic
FlooredToTenth(r, length) ==
    LET r10 == FMul(r, Ten)
        l10 == FMul(length, Ten)
    IN  /\ IsInteger(r10)
        /\ FLe(r10, l10)
        /\ FLt(l10, FAdd(r10, FromInt(1)))
        /\ FLe(r, length)

AbsDifference(a, b) == [FSub(a, b) EXCEPT !.neg = FALSE]

\* C6: for every valid form with crossings = 0 on a side, the planar chord
\* C of that side equals |pitchCircle/2 - ERD/2| exactly.
C6_RadialChordExact ==
    (Calculated /\ ValidInputs(resultsFor.inputs))
       => \A side \in {"left", "right"} :
             IsZero(parseInt(SideFields(resultsFor.inputs, side).crossings))
                => ChordOf(resultsFor.inputs, side)
                     = AbsDifference(
                          FDiv(parseFloat(SideFields(resultsFor.inputs,
                                                     side).pitchCircle), Two),
                          FDiv(parseFloat(resultsFor.inputs.erd), Two))

\* a form with the fields of its two sides exchanged, and with one side
\* replaced
SwapSides(in) ==
    [in EXCEPT !.pitchCircleLeft = in.pitchCircleRight,
               !.pitchCircleRight = in.pitchCircleLeft,
               !.flangeDistanceLeft = in.flangeDistanceRight,
               !.flangeDistanceRight = in.flangeDistanceLeft,
               !.crossingsLeft = in.crossingsRight,
               !.crossingsRight = in.crossingsLeft]

WithSide(in, side, s) ==
    IF side = "left"
    THEN [in EXCEPT !.pitchCircleLeft = s.pitchCircle,
                    !.flangeDistanceLeft = s.flangeDistance,
                    !.crossingsLeft = s.crossings]
    ELSE [in EXCEPT !.pitchCircleRight = s.pitchCircle,
                    !.flangeDistanceRight = s.flangeDistance,
                    !.crossingsRight = s.crossings]

\* other values for the three fields of a side
OtherSides ==
    {[pitchCircle |-> <<"5", "0">>, flangeDistance |-> <<"3", "0">>,
      crossings |-> <<"1">>],
     [pitchCircle |-> <<"3", "8">>, flangeDistance |-> <<"2", "5">>,
      crossings |-> <<"4">>]}

\* C7: the left result comes from the left fields and the shared fields
\* only, the right result from the right fields and the shared fields, by
\* the same function: exchanging the sides of the form exchanges the two
\* results, and changing one side's fields leaves the other side's result.
C7_SidesAlikeAndIndependent ==
    Calculated
       => /\ Lengths(SwapSides(resultsFor.inputs))
                = [left |-> results.right, right |-> results.left]
          /\ \A s \in OtherSides :
                /\ Lengths(WithSide(resultsFor.inputs, "right", s)).left
                      = results.left
                /\ Lengths(WithSide(resultsFor.inputs, "left", s)).right
                      = results.right

\* a valid form was calculated whose two sides give different lengths
C7_Witness ==
    /\ Calculated
    /\ ValidInputs(resultsFor.inputs)
    /\ results.left # results.right

\* x lies between the decimals lo and hi
Between(x, lo, hi) == FLe(parseFloat(lo), x) /\ FLe(x, parseFloat(hi))

\* the left side and the shared fields of the worked example
WorkedExample(in) ==
    /\ in.erd = <<"5", "9", "0">>
    /\ in.pitchCircleLeft = <<"4", "5">>
    /\ in.flangeDistanceLeft = <<"3", "5">>
    /\ in.spokeHoleDiameter = <<"2", ".", "6">>
    /\ in.numberOfSpokes = <<"3", "2">>
    /\ in.crossingsLeft = <<"3">>

\* C8 as stated: for the worked example's inputs the left spoke length is
\* about 291.5 mm and the planar chord about 290.7.
C8_WorkedExampleAsStated ==
    (Calculated /\ WorkedExample(resultsFor.inputs))
       => /\ Between(results.left, <<"2", "9", "1", ".", "4">>,
                                   <<"2", "9", "1", ".", "6">>)
          /\ Between(ChordOf(resultsFor.inputs, "left"),
                     <<"2", "9", "0", ".", "6">>, <<"2", "9", "0", ".", "8">>)

\* C8: for the worked example's inputs (ERD 590, pitch circle 45, flange
\* distance 35, spoke hole 2.6, 32 spokes, 3 crossings) the left spoke
\* length is 287.9 mm and the planar chord about 287.1.
C8_WorkedExample ==
    (Calculated /\ WorkedExample(resultsFor.inputs))
       => /\ results.left = parseFloat(<<"2", "8", "7", ".", "9">>)
          /\ Between(ChordOf(resultsFor.inputs, "left"),
                     <<"2", "8", "7", ".", "1">>, <<"2", "8", "7", ".", "2">>)

\* the worked example was calculated
C8_Witness ==
    /\ Calculated
    /\ WorkedExample(resultsFor.inputs)
    /\ inputs = resultsFor.inputs
    /\ IsFinite(results.left)

\* C9: calculateSpokeLength is deterministic: the results of a run are a
\* function of the inputs of the run alone, whatever the saved collection,
\* the results shown before, the calculation name and the toasts were.
C9_ResultsFunctionOfInputs ==
    Calculated => results = Lengths(resultsFor.inputs)

\* a valid form was calculated with an entry in the saved collection and a
\* name in the name field
C9_Witness ==
    /\ Calculated
    /\ ValidInputs(resultsFor.inputs)
    /\ savedCalculations # <<>>
    /\ calculationName # <<>>
    /\ IsFinite(results.left) /\ IsFinite(results.right)

\* C10: with a non-blank name and both results present, saveCalculation
\* appends exactly one entry at the end of the collection, holding the
\* entered name and copies of the current inputs and results, and leaves
\* the earlier entries, their positions, and the working inputs and
\* results as they were.
C10_SaveAppendsOneEntry ==
    [][(saveCalculation /\ StrTrim(calculationName) # <<>> /\ ResultsShown)
          => /\ Len(savedCalculations') = Len(savedCalculations) + 1
             /\ SubSeq(savedCalculations', 1, Len(savedCalculations))
                   = savedCalculations
             /\ savedCalculations'[Len(savedCalculations')].name
                   = calculationName
             /\ savedCalculations'[Len(savedCalculations')].inputs = inputs
             /\ savedCalculations'[Len(savedCalculations')].results = results
             /\ inputs' = inputs
             /\ results' = results]_vars

\* a save has just added a second entry behind an earlier, different one
C10_Witness ==
    /\ Len(savedCalculations) = 2
    /\ savedCalculations[1] # savedCalculations[2]
    /\ toastCall = Toast("alerts.saved", "success")

\* C11: in every state the entry 'spokeCalculations' of localStorage and
\* savedCalculations hold the same sequence of entries: the entry is absent
\* only while nothing has been saved, and reading it back gives the
\* collection in memory.
C11_StorageHoldsCollection ==
    /\ localStorage.present => localStorage.value = savedCalculations
    /\ ~localStorage.present => savedCalculations = <<>>

\* C12: when the entered name is empty or blank, or either result is
\* absent, saveCalculation shows a warning and leaves the collection, its
\* stored form, the working inputs and results, and the entered name as
\* they were.
C12_RejectedSaveChangesNothing ==
    [][(saveCalculation /\ (\/ StrTrim(calculationName) = <<>>
                            \/ results.left = Null
                            \/ results.right = Null))
          => /\ toastCall'.type = "warning"
             /\ UNCHANGED <<savedCalculations, localStorage, inputs, results,
                            calculationName>>]_vars

\* a save under a name has just been refused for want of results
C12_Witness ==
    /\ toastCall = Toast("alerts.performCalculationFirst", "warning")
    /\ StrTrim(calculationName) # <<>>
    /\ results.left = Null

\* C13: loading a saved entry sets the working inputs and results to the
\* values they had when that entry was saved, whatever was edited,
\* calculated, loaded or saved in between.
C13_LoadRestoresSaved ==
    [][\A i \in 1..Len(savedCalculations) :
          loadCalculation(i) => /\ inputs' = savedWith[i].inputs
                                /\ results' = savedWith[i].results]_vars

\* an entry has just been loaded over a working state that had been edited
\* and calculated anew since the entry was saved
C13_Witness ==
    /\ sharedWith.inputs # <<>>
    /\ sharedWith.inputs = sharedWith.results
    /\ inputs = savedWith[sharedWith.inputs[1]].inputs
    /\ results = savedWith[sharedWith.inputs[1]].results
    /\ Len(savedCalculations) = 2
    /\ savedWith[1].inputs # savedWith[2].inputs
    /\ savedWith[1].results # savedWith[2].results
    /\ sharedWith.inputs = <<1>>

\* a is b with some of its members left out
RECURSIVE IsSubsequence(_, _)
IsSubsequence(a, b) ==
    IF a = <<>> THEN TRUE
    ELSE IF b = <<>> THEN FALSE
    ELSE IF a[1] = b[1] THEN IsSubsequence(Tail(a), Tail(b))
    ELSE IsSubsequence(a, Tail(b))

\* C14: no step changes a saved entry: after every step each entry holds
\* the inputs and results it was saved with, and the collection changes
\* only by saveCalculation adding one entry at its end or by confirmDelete
\* leaving entries out.  Loading an entry, editing, calculating, importing
\* and loading a preset leave the collection as it was.
C14_SavedEntriesFrame ==
    [][/\ Len(savedWith') = Len(savedCalculations')
       /\ \A i \in 1..Len(savedCalculations') :
             /\ savedCalculations'[i].inputs = savedWith'[i].inputs
             /\ savedCalculations'[i].results = savedWith'[i].results
       /\ \/ UNCHANGED savedCalculations
          \/ /\ saveCalculation
             /\ Len(savedCalculations') = Len(savedCalculations) + 1
             /\ SubSeq(savedCalculations', 1, Len(savedCalculations))
                   = savedCalculations
          \/ /\ confirmDelete
             /\ Len(savedCalculations') < Len(savedCalculations)
             /\ IsSubsequence(savedCalculations', savedCalculations)]_vars

\* an entry was loaded and the form then edited: the working results are
\* still the entry's object, the working inputs differ from the entry's,
\* and the entry holds what it was saved with
C14_Witness ==
    /\ sharedWith = [inputs |-> <<>>, results |-> <<1>>]
    /\ inputs # savedCalculations[1].inputs
    /\ savedCalculations[1].inputs = savedWith[1].inputs
    /\ savedCalculations[1].results = savedWith[1].results

\* C15: a confirmed delete of an id that the collection holds removes
\* exactly one entry: the collection is one entry shorter, the entries
\* that stay keep their order, and the stored form is that of the result.
C15_DeleteRemovesExactlyOne ==
    [][(/\ confirmDelete
        /\ calculationToDelete # <<>>
        /\ \E i \in 1..Len(savedCalculations) :
              savedCalculations[i].id = calculationToDelete[1])
          => /\ Len(savedCalculations') = Len(savedCalculations) - 1
             /\ IsSubsequence(savedCalculations', savedCalculations)
             /\ localStorage' = Item(savedCalculations')]_vars

\* C16: deleting is idempotent.  In the state a confirmed delete of an id
\* leaves behind, the collection holds no entry of that id, and deleting
\* the same id again (the filter and the write of confirmDelete applied to
\* that state) gives the same collection and the same stored form.
C16_DeleteIdempotent ==
    [][(confirmDelete /\ calculationToDelete # <<>>)
          => LET id    == calculationToDelete[1]
                 again == FilterOutId(savedCalculations', id)
             IN  /\ \A i \in 1..Len(savedCalculations') :
                       savedCalculations'[i].id # id
                 /\ again = savedCalculations'
                 /\ Item(again) = localStorage']_vars

\* a delete has just been confirmed and left an entry of another id behind
C16_Witness ==
    /\ toastCall = Toast("alerts.deleted", "success")
    /\ Len(savedCalculations) = 1
    /\ localStorage = Item(savedCalculations)

\* C17: an entry leaves the collection only after a confirmation.
\* deleteCalculation changes neither the collection nor its stored form;
\* cancelDelete changes neither and clears the pending id; a step that
\* removes entries is a confirmDelete taken while an id is pending, and
\* removes entries of that id only; and the pending id is set by
\* deleteCalculation alone, to the id of the entry whose button was
\* pressed.  So the pending id at a removal is that of the latest
\* deleteCalculation, with no cancelDelete since.
C17_RemovalOnlyAfterConfirmation ==
    [][/\ (\E i \in 1..Len(savedCalculations) : deleteCalculation(i))
             => UNCHANGED <<savedCalculations, localStorage>>
       /\ cancelDelete
             => /\ UNCHANGED <<savedCalculations, localStorage>>
                /\ calculationToDelete' = <<>>
       /\ (\E i \in 1..Len(savedCalculations) :
              \A j \in 1..Len(savedCalculations') :
                 savedCalculations'[j] # savedCalculations[i])
             => /\ confirmDelete
                /\ calculationToDelete # <<>>
                /\ IsSubsequence(savedCalculations', savedCalculations)
                /\ \A i \in 1..Len(savedCalculations) :
                      savedCalculations[i].id # calculationToDelete[1]
                         => \E j \in 1..Len(savedCalculations') :
                               savedCalculations'[j] = savedCalculations[i]
       /\ (calculationToDelete' # <<>>
             /\ calculationToDelete' # calculationToDelete)
             => \E i \in 1..Len(savedCalculations) :
                   /\ deleteCalculation(i)
                   /\ calculationToDelete' = <<savedCalculations[i].id>>]_vars

\* the delete button of an entry has been pressed and nothing confirmed
\* yet: the dialog is open, and the entry is in the collection and in its
\* stored form
C17_Witness ==
    /\ showDeleteConfirm
    /\ calculationToDelete # <<>>
    /\ Len(savedCalculations) = 2
    /\ savedCalculations[2].id = calculationToDelete[1]
    /\ savedCalculations[1].id # calculationToDelete[1]
    /\ localStorage = Item(savedCalculations)

\* C18: exportToJSON with a result absent shows a warning and leaves
\* jsonData and showJsonOutput as they were; with both results present it
\* puts out a document whose inputs and results are the working ones and
\* whose metadata name the calculator and the version.  Either way the
\* working inputs and results and the collection stay as they were.
C18_ExportDocumentIsWorkingState ==
    [][exportToJSON
          => /\ UNCHANGED <<inputs, results, savedCalculations>>
             /\ IF results.left = Null \/ results.right = Null
                THEN /\ toastCall'.type = "warning"
                     /\ UNCHANGED <<jsonData, showJsonOutput>>
                ELSE /\ jsonData'.parses
                     /\ jsonData'.data.inputs = inputs
                     /\ jsonData'.data.results = results
                     /\ jsonData'.data.metadata.calculator
                           = "Bicycle Spoke Length Calculator"
                     /\ jsonData'.data.metadata.version = "1.0"]_vars

\* the document of a file holds an object under the key k
HasObject(file, k) ==
    /\ file.parses
    /\ k \in DOMAIN file.data
    /\ IsJsonObject(file.data[k])

\* C19: reading a file that is not JSON, or whose document lacks an inputs
\* object or a results object, ends with an error notification and leaves
\* the working inputs and results as they were.
C19_ImportWithoutObjectsRejected ==
    [][\A i \in 1..Len(pendingReads) :
          (/\ ReaderOnload(i)
           /\ ~(HasObject(pendingReads[i], "inputs")
                  /\ HasObject(pendingReads[i], "results")))
             => /\ toastCall'.type = "error"
                /\ UNCHANGED <<inputs, results>>]_vars

\* C20: reading back a file that downloadJSON wrote from the document of
\* exportToJSON succeeds and sets the working inputs and results to those
\* the document was exported from, whatever the working state has become
\* since.
C20_ExportImportRoundTrip ==
    [][\A i \in 1..Len(pendingReads) :
          (/\ ReaderOnload(i)
           /\ downloaded # <<>>
           /\ pendingReads[i] = downloaded[1].file)
             => /\ toastCall' = Toast("alerts.jsonLoaded", "success")
                /\ inputs' = downloaded[1].from.inputs
                /\ results' = downloaded[1].from.results]_vars

\* C21: the loader of the presets keeps the documents that have inputs and
\* results, all nine input fields and numeric results, skips the others,
\* and the user is notified of skipped documents once for the catalogue:
\* the notification is raised at most once, also when a language switch
\* runs the loader again.
C21_SkippedEntriesNotifiedOnce ==
    /\ ~effectPending =>
          /\ Len(presetOptions) =
                Cardinality({i \in 1..Len(presetModules) :
                                PresetKept(presetModules[i].module)})
          /\ \A i \in 1..Len(presetOptions) :
                \E j \in 1..Len(presetModules) :
                   /\ presetOptions[i].data = presetModules[j].module
                   /\ PresetKept(presetModules[j].module)
    /\ presetErrors <= 1

\* id, name and timestamp of the entries of a list, in the order of the list
Listed(calcs) ==
    [i \in 1..Len(calcs) |-> [id        |-> calcs[i].id,
                              name      |-> calcs[i].name,
                              timestamp |-> calcs[i].timestamp]]

\* C22: the saved collection is kept in the order of insertion and that
\* order survives a restart: the entries are listed by ascending time of
\* saving, in the component and in the stored array alike, after any saves
\* and confirmed deletes, and the collection a restart reads back lists the
\* entries in the order the component had them in.
C22_InsertionOrderKept ==
    /\ [](/\ \A i, j \in 1..Len(savedCalculations) :
                i < j => savedCalculations[i].id <= savedCalculations[j].id
          /\ localStorage.present =>
                Listed(localStorage.value) = Listed(savedCalculations))
    /\ [][Reload => Listed(savedCalculations') = Listed(savedCalculations)]_vars

\* the page has been loaded again and two entries saved at different times
\* were read back
C22_Witness ==
    /\ selectedPreset = ""
    /\ results = InitialResults
    /\ Len(savedCalculations) = 2
    /\ savedCalculations[1].id < savedCalculations[2].id
    /\ localStorage.present

\* C23: every operation is finished within the event that starts it, and
\* no other action of the user comes between its start and the moment it
\* changes the inputs or the results: once a file is picked, the next thing
\* to happen is the onload callback of its reader.
C23_NothingBetweenPickAndOnload ==
    [][pendingReads # <<>> =>
          \E i \in 1..Len(pendingReads) : ReaderOnload(i)]_vars

\* C24: after any sequence of calculating, loading, preset loading and
\* importing, results.left and results.right are each null or a finite
\* number, so that the test against null of the results panel guards a
\* toFixed(1) of a finite number.
C24_ResultsNullOrFinite ==
    /\ results.left = Null \/ IsFinite(results.left)
    /\ results.right = Null \/ IsFinite(results.right)

\* the toasts of the list that are still in the list after the step
ToastsLeft ==
    SelectSeq(toasts,
              LAMBDA toast : \E j \in 1..Len(toasts') : toasts'[j].id = toast.id)

\* C25: every toast that showToast adds is removed from the list in the
\* end: its timer calls onRemove unless the toast is closed before, and no
\* arrival or removal of another toast cancels or restarts that timer, so
\* the toasts that stay in the list stay as they are, timer included.
C25_ToastEventuallyRemoved ==
    /\ MarkedShown ~> ~MarkedShown
    /\ [][/\ Len(ToastsLeft) <= Len(toasts')
          /\ SubSeq(toasts', 1, Len(ToastsLeft)) = ToastsLeft]_vars

\* the toast that is followed is shown with its timer set, and a toast has
\* arrived after it
C25_Witness ==
    /\ Len(toasts) = 2
    /\ toasts[1].mark
    /\ toasts[1].timer = "set"
    /\ toasts[2].id # toasts[1].id

\* C26: the toasts of the list have pairwise distinct ids, also when
\* showToast is called several times in immediate succession, so that
\* removeToast(id) removes exactly one toast.
C26_ToastIdsDistinct ==
    \A i, j \in 1..Len(toasts) : i # j => toasts[i].id # toasts[j].id

====
